---------------------------- MODULE Spec2Model ----------------------------
(***************************************************************************)
(* Model of the two dictionary tools of the repository:                    *)
(*   src/cn_dicts/replace_weight.py  (weight synchronizer)                 *)
(*   src/cn_dicts/wubi.encoded.py    (phrase coder / dictionary updater)   *)
(*                                                                         *)
(* Text is modelled at character level: a string is a sequence of Unicode  *)
(* code points (9 = TAB, 10 = LF, 32 = space, 45 = '-', 48..57 digits,     *)
(* 97..122 lowercase letters, 19968..40959 = the range U+4E00..U+9FFF).   *)
(* A file is a sequence of lines, each line a string that ends with LF     *)
(* except possibly the last one (what readlines() returns).                *)
(* Column indices are 0-based as in the source; None is modelled as -1.    *)
(***************************************************************************)
EXTENDS Integers, Sequences, FiniteSets, TLC

VARIABLES
    call,              \* last invocation of a pure function and its result
    baseFile,          \* content of phrase_weight.txt
    dragFile,          \* content of the dragged-in file
    base_mapping,      \* main()'s base_mapping, loaded once at start-up
    backup,            \* the backup file written by the last run
    run,               \* outcome of the last replace_weights_direction* call
    outFile,           \* content of wubi.user.dict.yaml
    failFile,          \* content of fail.txt
    existing_phrases,  \* auto_mode()'s / interactive_input_mode()'s set
    session,           \* wubi session: rule, char_codes, phrase_weights
    add                \* outcome of the last dictionary-updater operation

vars == <<call, baseFile, dragFile, base_mapping, backup, run,
          outFile, failFile, existing_phrases, session, add>>

pureVars == <<call>>
syncVars == <<baseFile, dragFile, base_mapping, backup, run>>
dictVars == <<outFile, failFile, existing_phrases, session, add>>

---------------------------------------------------------------------------
(* Characters and string primitives                                        *)

TAB == 9
NL == 10
None == -1

IsSpace(c) == c \in {9, 10, 11, 12, 13, 32}
IsDigit(c) == c >= 48 /\ c <= 57
IsLower(c) == c >= 97 /\ c <= 122
IsUpper(c) == c >= 65 /\ c <= 90
IsCJK(c) == c >= 19968 /\ c <= 40959

RECURSIVE lstrip(_)
lstrip(s) ==
    IF s # <<>> /\ IsSpace(Head(s)) THEN lstrip(Tail(s)) ELSE s

RECURSIVE rstrip(_)
rstrip(s) ==
    IF s # <<>> /\ IsSpace(s[Len(s)])
    THEN rstrip(SubSeq(s, 1, Len(s) - 1))
    ELSE s

\* str.strip()
strip(s) == rstrip(lstrip(s))

\* F(v) with v evaluated once, the way a Python local variable holds a value
Bind(v, F(_)) == CHOOSE r \in {F(x) : x \in {y \in {v} : y = y}} : TRUE

\* line.rstrip('\n')
RECURSIVE rstrip_nl(_)
rstrip_nl(s) ==
    IF s # <<>> /\ s[Len(s)] = NL
    THEN rstrip_nl(SubSeq(s, 1, Len(s) - 1))
    ELSE s

\* line_content.split('\t')
RECURSIVE split_tab(_)
split_tab(s) ==
    IF \E i \in 1..Len(s) : s[i] = TAB
    THEN LET i == CHOOSE k \in 1..Len(s) :
                      s[k] = TAB /\ \A j \in 1..(k - 1) : s[j] # TAB
         IN  <<SubSeq(s, 1, i - 1)>> \o split_tab(SubSeq(s, i + 1, Len(s)))
    ELSE <<s>>

\* '\t'.join(parts)
RECURSIVE join_tab(_)
join_tab(parts) ==
    IF Len(parts) = 0 THEN <<>>
    ELSE IF Len(parts) = 1 THEN parts[1]
    ELSE parts[1] \o <<TAB>> \o join_tab(Tail(parts))

\* re.fullmatch(r'-?\d+', cell)
fullmatch_int(cell) ==
    LET body == IF cell # <<>> /\ cell[1] = 45 THEN Tail(cell) ELSE cell
    IN  body # <<>> /\ \A i \in 1..Len(body) : IsDigit(body[i])

\* re.fullmatch(r'[a-z]+', cell)
fullmatch_lower(cell) ==
    cell # <<>> /\ \A i \in 1..Len(cell) : IsLower(cell[i])

\* re.search(r'[\u4e00-\u9fff]', cell)
search_cjk(cell) == \E i \in 1..Len(cell) : IsCJK(cell[i])

---------------------------------------------------------------------------
(* replace_weight.py: column-type classifier                               *)

detect_cell_type_unstripped(raw) ==
    IF raw = <<>> THEN "unknown"
    ELSE IF fullmatch_int(raw) THEN "weight"
    ELSE IF fullmatch_lower(raw) THEN "code"
    ELSE "phrase"

\* the per-cell rule inlined in detect_column_types
detect_cell_type(raw) ==
    LET cell == strip(raw)
    IN  IF cell = <<>> THEN "unknown"
        ELSE IF fullmatch_int(cell) THEN "weight"
        ELSE IF fullmatch_lower(cell) THEN "code"
        ELSE "phrase"

\* cell_types of one line in detect_column_types
detect_cell_types(parts) ==
    [i \in 1..Len(parts) |-> detect_cell_type(parts[i])]

EmptyStat ==
    [total |-> 0, phrase |-> 0, code |-> 0, weight |-> 0, unknown |-> 0]

add_row_stats_non_empty(stats, cell_types) ==
    [i \in (DOMAIN stats) \cup (0..(Len(cell_types) - 1)) |->
        LET st == IF i \in DOMAIN stats THEN stats[i] ELSE EmptyStat
        IN  IF i < Len(cell_types) /\ cell_types[i + 1] # "unknown"
            THEN [st EXCEPT !.total = @ + 1, ![cell_types[i + 1]] = @ + 1]
            ELSE st]

\* the "for i, cell_type in enumerate(cell_types)" loop
add_row_stats(stats, cell_types) ==
    [i \in (DOMAIN stats) \cup (0..(Len(cell_types) - 1)) |->
        LET st == IF i \in DOMAIN stats THEN stats[i] ELSE EmptyStat
        IN  IF i < Len(cell_types)
            THEN [st EXCEPT !.total = @ + 1, ![cell_types[i + 1]] = @ + 1]
            ELSE st]

\* the loop over data_lines that fills column_stats
RECURSIVE collect_stats(_, _, _)
collect_stats(data_lines, k, stats) ==
    IF k > Len(data_lines) THEN stats
    ELSE Bind(data_lines[k].content, LAMBDA line_content :
             IF strip(line_content) = <<>>
             THEN collect_stats(data_lines, k + 1, stats)
             ELSE Bind(detect_cell_types(split_tab(line_content)),
                       LAMBDA cell_types :
                  Bind(add_row_stats(stats, cell_types),
                       LAMBDA column_stats :
                  collect_stats(data_lines, k + 1, column_stats))))

\* the loop "for type_key in ['phrase', 'code', 'weight']", max_count = -1
max_type_of(st) ==
    LET t1 == IF st.phrase > -1 THEN "phrase" ELSE "none"
        c1 == IF st.phrase > -1 THEN st.phrase ELSE -1
        t2 == IF st.code > c1 THEN "code" ELSE t1
        c2 == IF st.code > c1 THEN st.code ELSE c1
        t3 == IF st.weight > c2 THEN "weight" ELSE t2
        c3 == IF st.weight > c2 THEN st.weight ELSE c2
    IN  [type |-> t3, count |-> c3]

resolve_column_type_strict(st) ==
    LET m == max_type_of(st)
    IN  IF 2 * m.count > st.total THEN m.type ELSE "unknown"

\* max_count / total >= 0.5
resolve_column_type(st) ==
    LET m == max_type_of(st)
    IN  IF 2 * m.count >= st.total THEN m.type ELSE "unknown"

detect_column_types(data_lines) ==
    IF Len(data_lines) = 0 THEN <<>>
    ELSE Bind(collect_stats(data_lines, 1, <<>>), LAMBDA column_stats :
             [i \in {c \in DOMAIN column_stats : column_stats[c].total # 0}
                 |-> resolve_column_type(column_stats[i])])

---------------------------------------------------------------------------
(* replace_weight.py: row resolver                                         *)

analyze_row_pattern_unstripped(parts) ==
    [i \in 0..(Len(parts) - 1) |->
        LET cell == parts[i + 1]
        IN  IF cell = <<>> THEN "unknown"
            ELSE IF fullmatch_int(cell) THEN "weight"
            ELSE IF fullmatch_lower(cell) THEN "code"
            ELSE "phrase"]

analyze_row_pattern(parts) ==
    [i \in 0..(Len(parts) - 1) |->
        LET cell == strip(parts[i + 1])
        IN  IF cell = <<>> THEN "unknown"
            ELSE IF fullmatch_int(cell) THEN "weight"
            ELSE IF fullmatch_lower(cell) THEN "code"
            ELSE "phrase"]

\* "for col_idx, t in types.items()": the dictionaries are filled in
\* ascending index order, so the scan visits the indices in ascending order.
RECURSIVE scan_types(_, _, _, _, _)
scan_types(types, limit, k, phrase_col, weight_col) ==
    IF \A c \in DOMAIN types : c < k
    THEN <<phrase_col, weight_col>>
    ELSE IF k \notin DOMAIN types \/ ~(k < limit)
    THEN scan_types(types, limit, k + 1, phrase_col, weight_col)
    ELSE IF types[k] = "phrase" /\ phrase_col = None
    THEN scan_types(types, limit, k + 1, k, weight_col)
    ELSE IF types[k] = "weight" /\ weight_col = None
    THEN scan_types(types, limit, k + 1, phrase_col, k)
    ELSE scan_types(types, limit, k + 1, phrase_col, weight_col)

find_columns_by_statistics(parts, column_types) ==
    scan_types(column_types, Len(parts), 0, None, None)

find_columns_by_type_for_row(parts, column_types) ==
    Bind(scan_types(column_types, Len(parts), 0, None, None), LAMBDA first :
        IF first[1] = None \/ first[2] = None
        THEN Bind(analyze_row_pattern(parts), LAMBDA row_pattern :
                 scan_types(row_pattern, Len(parts), 0, first[1], first[2]))
        ELSE first)

---------------------------------------------------------------------------
(* replace_weight.py: loading a file                                       *)

Marker == <<46, 46, 46>>

\* index (1-based) of the first line whose stripped content is '...', or 0
marker_index(lines) ==
    IF \E i \in 1..Len(lines) : strip(rstrip_nl(lines[i])) = Marker
    THEN CHOOSE i \in 1..Len(lines) :
             /\ strip(rstrip_nl(lines[i])) = Marker
             /\ \A j \in 1..(i - 1) : strip(rstrip_nl(lines[j])) # Marker
    ELSE 0

comment_lines_before_marker(lines) ==
    SubSeq(lines, 1, marker_index(lines) - 1)

\* comment_lines of load_file_with_column_detection
comment_lines_of(lines) == SubSeq(lines, 1, marker_index(lines))

\* data_lines of load_file_with_column_detection: (i, line_content, line)
data_lines_of(lines) ==
    LET m == marker_index(lines)
    IN  [k \in 1..(Len(lines) - m) |->
            [num |-> m + k - 1,
             content |-> rstrip_nl(lines[m + k]),
             orig |-> lines[m + k]]]

\* last resort: the first cell that holds a CJK ideograph
RECURSIVE fallback_phrase_col(_, _)
fallback_phrase_col(parts, k) ==
    IF k >= Len(parts) THEN None
    ELSE LET cell == strip(parts[k + 1])
         IN  IF cell # <<>> /\ search_cjk(cell) THEN k
             ELSE fallback_phrase_col(parts, k + 1)

\* last resort: the first cell that is a pure integer
RECURSIVE fallback_weight_col(_, _)
fallback_weight_col(parts, k) ==
    IF k >= Len(parts) THEN None
    ELSE LET cell == strip(parts[k + 1])
         IN  IF cell # <<>> /\ fullmatch_int(cell) THEN k
             ELSE fallback_weight_col(parts, k + 1)

\* find_columns_by_type_for_row followed by the two last-resort searches
resolve_row(parts, column_types) ==
    Bind(find_columns_by_type_for_row(parts, column_types), LAMBDA found :
        <<IF found[1] = None THEN fallback_phrase_col(parts, 0) ELSE found[1],
          IF found[2] = None THEN fallback_weight_col(parts, 0) ELSE found[2]>>)

\* dict assignment d[key] = value
dict_set(d, key, value) ==
    [x \in (DOMAIN d) \cup {key} |-> IF x = key THEN value ELSE d[x]]

\* body of the loop that builds phrase_to_weight
load_row(line_content, column_types, phrase_to_weight) ==
    IF strip(line_content) = <<>> THEN phrase_to_weight
    ELSE Bind(split_tab(line_content), LAMBDA parts :
             IF Len(parts) < 2 THEN phrase_to_weight
             ELSE Bind(resolve_row(parts, column_types), LAMBDA cols :
                      IF cols[1] = None \/ cols[2] = None
                      THEN phrase_to_weight
                      ELSE Bind(strip(parts[cols[1] + 1]), LAMBDA phrase :
                           Bind(IF cols[2] < Len(parts)
                                THEN strip(parts[cols[2] + 1])
                                ELSE <<>>, LAMBDA weight :
                               IF phrase = <<>> THEN phrase_to_weight
                               ELSE IF weight = <<>> THEN phrase_to_weight
                               ELSE dict_set(phrase_to_weight, phrase,
                                             weight)))))

RECURSIVE load_rows(_, _, _, _)
load_rows(data_lines, k, column_types, phrase_to_weight) ==
    IF k > Len(data_lines) THEN phrase_to_weight
    ELSE Bind(load_row(data_lines[k].content, column_types,
                       phrase_to_weight),
              LAMBDA next : load_rows(data_lines, k + 1, column_types, next))

load_file_with_column_detection(lines) ==
    Bind(data_lines_of(lines), LAMBDA data_lines :
    Bind(detect_column_types(data_lines), LAMBDA column_types :
        [comment_lines |-> comment_lines_of(lines),
         data_lines |-> data_lines,
         column_types |-> column_types,
         phrase_to_weight |-> load_rows(data_lines, 1, column_types, <<>>)]))

---------------------------------------------------------------------------
(* replace_weight.py: rewriting the data rows of the target                *)

list_set_next(parts, idx, value) ==
    [i \in 1..Len(parts) |-> IF i = idx + 2 THEN value ELSE parts[i]]

\* list assignment parts[idx] = value (idx 0-based)
list_set(parts, idx, value) ==
    [i \in 1..Len(parts) |-> IF i = idx + 1 THEN value ELSE parts[i]]

weights_never_equal(original_weight, new_weight) == FALSE

\* "if original_weight == new_weight": no change is needed
weights_equal(original_weight, new_weight) == original_weight = new_weight

process_row_double_count(line, column_types, mapping) ==
    LET keep(kind, err, nf) ==
            [line |-> line.orig, kind |-> kind, updated |-> 0,
             not_found |-> nf, error |-> err, modified |-> <<>>]
    IN  IF strip(line.content) = <<>> THEN keep("blank", 0, 0)
        ELSE IF ~(\E i \in 1..Len(line.content) : line.content[i] = TAB)
        THEN keep("no_tab", 1, 0)
        ELSE Bind(split_tab(line.content), LAMBDA parts :
                 IF Len(parts) < 2 THEN keep("few_columns", 1, 0)
                 ELSE Bind(resolve_row(parts, column_types), LAMBDA cols :
                          IF cols[1] = None THEN keep("no_phrase", 1, 0)
                          ELSE IF cols[2] = None THEN keep("no_weight", 1, 0)
                          ELSE LET phrase == strip(parts[cols[1] + 1])
                                   original_weight ==
                                       IF cols[2] < Len(parts)
                                       THEN strip(parts[cols[2] + 1])
                                       ELSE <<>>
                               IN  IF phrase \in DOMAIN mapping
                                   THEN IF weights_equal(original_weight,
                                                        mapping[phrase])
                                        THEN keep("equal", 0, 0)
                                        ELSE [line |->
                                                 join_tab(list_set(parts,
                                                     cols[2], mapping[phrase]))
                                                 \o <<NL>>,
                                              kind |-> "updated",
                                              updated |-> 1,
                                              not_found |-> 0,
                                              error |-> 0,
                                              modified |-> <<line.content>>]
                                   ELSE keep("not_found", 1, 1)))

\* One iteration of "for line_num, line_content, original_line in ...":
\* the line appended to updated_lines, the counter incremented, and the
\* entry appended to modified_lines.
process_row(line, column_types, mapping) ==
    LET keep(kind, err, nf) ==
            [line |-> line.orig, kind |-> kind, updated |-> 0,
             not_found |-> nf, error |-> err, modified |-> <<>>]
    IN  IF strip(line.content) = <<>> THEN keep("blank", 0, 0)
        ELSE IF ~(\E i \in 1..Len(line.content) : line.content[i] = TAB)
        THEN keep("no_tab", 1, 0)
        ELSE Bind(split_tab(line.content), LAMBDA parts :
                 IF Len(parts) < 2 THEN keep("few_columns", 1, 0)
                 ELSE Bind(resolve_row(parts, column_types), LAMBDA cols :
                          IF cols[1] = None THEN keep("no_phrase", 1, 0)
                          ELSE IF cols[2] = None THEN keep("no_weight", 1, 0)
                          ELSE LET phrase == strip(parts[cols[1] + 1])
                                   original_weight ==
                                       IF cols[2] < Len(parts)
                                       THEN strip(parts[cols[2] + 1])
                                       ELSE <<>>
                               IN  IF phrase \in DOMAIN mapping
                                   THEN IF weights_equal(original_weight,
                                                        mapping[phrase])
                                        THEN keep("equal", 0, 0)
                                        ELSE [line |->
                                                 join_tab(list_set(parts,
                                                     cols[2], mapping[phrase]))
                                                 \o <<NL>>,
                                              kind |-> "updated",
                                              updated |-> 1,
                                              not_found |-> 0,
                                              error |-> 0,
                                              modified |-> <<line.content>>]
                                   ELSE keep("not_found", 0, 1)))

RECURSIVE process_rows_errors_dropped(_, _, _, _, _)
process_rows_errors_dropped(data_lines, k, column_types, mapping, acc) ==
    IF k > Len(data_lines) THEN acc
    ELSE Bind(process_row(data_lines[k], column_types, mapping), LAMBDA r :
         Bind([updated_lines |-> Append(acc.updated_lines, r.line),
               updated_count |-> acc.updated_count + r.updated,
               not_found_count |-> acc.not_found_count + r.not_found,
               error_count |-> acc.error_count,
               modified_lines |-> acc.modified_lines \o r.modified],
              LAMBDA next :
         process_rows_errors_dropped(data_lines, k + 1, column_types,
                                     mapping, next)))

RECURSIVE process_rows(_, _, _, _, _)
process_rows(data_lines, k, column_types, mapping, acc) ==
    IF k > Len(data_lines) THEN acc
    ELSE Bind(process_row(data_lines[k], column_types, mapping), LAMBDA r :
         Bind([updated_lines |-> Append(acc.updated_lines, r.line),
               updated_count |-> acc.updated_count + r.updated,
               not_found_count |-> acc.not_found_count + r.not_found,
               error_count |-> acc.error_count + r.error,
               modified_lines |-> acc.modified_lines \o r.modified],
              LAMBDA next :
         process_rows(data_lines, k + 1, column_types, mapping, next)))

EmptyCounts ==
    [updated_lines |-> <<>>, updated_count |-> 0, not_found_count |-> 0,
     error_count |-> 0, modified_lines |-> <<>>]

---------------------------------------------------------------------------
(* replace_weight.py: the two synchronisation directions and main()        *)

NoRun ==
    [dir |-> 0, ok |-> FALSE, wrote |-> FALSE, backup_ok |-> FALSE,
     pre |-> <<>>, mapping |-> <<>>, updated_count |-> 0,
     not_found_count |-> 0, error_count |-> 0, modified_lines |-> <<>>]

NoBackup == [ok |-> FALSE, content |-> <<>>]

\* The part of replace_weights_direction1/2 after the row loop: the backup
\* of the target, the rewrite of the target and the return value.  res is
\* the outcome of the row loop, bk the fate of the backup step ("ok",
\* "read_fail": reading the target raised, "write_fail": writing the backup
\* raised) and wr tells whether opening the target for writing succeeded.
rewrite_target(dir, target, loaded, mapping, res, bk, wr) ==
    [target |-> IF wr THEN loaded.comment_lines \o res.updated_lines
                ELSE target,
     backup |-> IF bk = "ok" THEN [ok |-> TRUE, content |-> target]
                ELSE NoBackup,
     \* original_content is bound only when the read succeeded: the call
     \* of create_update_record raises NameError otherwise, which the
     \* handler around the write turns into "return False".
     run |-> [dir |-> dir, ok |-> (wr /\ bk # "read_fail"), wrote |-> wr,
              backup_ok |-> (bk = "ok"),
              pre |-> target, mapping |-> mapping,
              updated_count |-> res.updated_count,
              not_found_count |-> res.not_found_count,
              error_count |-> res.error_count,
              modified_lines |-> res.modified_lines]]

\* the early "return False" of both directions
refused(dir, target, old_backup, mapping) ==
    [target |-> target, backup |-> old_backup,
     run |-> [NoRun EXCEPT !.dir = dir, !.pre = target, !.mapping = mapping]]

BackupFates == {"ok", "read_fail", "write_fail"}

\* replace_weights_direction1(drag_in_file, base_file, record_dir): the
\* possible outcomes, one per fate of the backup step (fates) and of the
\* final open() of the target (writes)
replace_weights_direction1(drag_in_file, base_file, old_backup, fates, writes) ==
    Bind(load_file_with_column_detection(drag_in_file), LAMBDA drag_in :
    Bind(load_file_with_column_detection(base_file), LAMBDA base :
    Bind(drag_in.phrase_to_weight, LAMBDA mapping :
        IF DOMAIN mapping = {} \/ Len(base.data_lines) = 0
        THEN {refused(1, base_file, old_backup, mapping)}
        ELSE Bind(process_rows(base.data_lines, 1, base.column_types,
                               mapping, EmptyCounts), LAMBDA res :
                 {rewrite_target(1, base_file, base, mapping, res, bk, wr) :
                      bk \in fates, wr \in writes}))))

\* replace_weights_direction2(drag_in_file, base_mapping, record_dir)
replace_weights_direction2(drag_in_file, mapping, old_backup, fates, writes) ==
    Bind(load_file_with_column_detection(drag_in_file), LAMBDA drag_in :
        IF Len(drag_in.data_lines) = 0
        THEN {refused(2, drag_in_file, old_backup, mapping)}
        ELSE Bind(process_rows(drag_in.data_lines, 1, drag_in.column_types,
                               mapping, EmptyCounts), LAMBDA res :
                 {rewrite_target(2, drag_in_file, drag_in, mapping, res,
                                 bk, wr) : bk \in fates, wr \in writes}))

\* the mapping main() hands to direction 2: the one loaded at start-up
direction2_mapping == base_mapping

\* main(), choice 1
Direction1(fates, writes) ==
    /\ \E r \in replace_weights_direction1(dragFile, baseFile, backup,
                                           fates, writes) :
          /\ baseFile' = r.target
          /\ backup' = r.backup
          /\ run' = r.run
    /\ UNCHANGED <<dragFile, base_mapping>>
    /\ UNCHANGED pureVars
    /\ UNCHANGED dictVars

\* main(), choice 2
Direction2(fates, writes) ==
    /\ \E r \in replace_weights_direction2(dragFile, direction2_mapping,
                                           backup, fates, writes) :
          /\ dragFile' = r.target
          /\ backup' = r.backup
          /\ run' = r.run
    /\ UNCHANGED <<baseFile, base_mapping>>
    /\ UNCHANGED pureVars
    /\ UNCHANGED dictVars

---------------------------------------------------------------------------
(* Inputs                                                                  *)

\* strings used to build the inputs
S_ni == <<20320>>          \* U+4F60
S_hao == <<22909>>         \* U+597D
S_zhong == <<20013>>       \* U+4E2D
S_5 == <<53>>              \* "5"
S_7 == <<55>>              \* "7"
S_9 == <<57>>              \* "9"
S_ab == <<97, 98>>         \* "ab"
S_pad5 == <<32, 53, 32>>   \* " 5 "
S_empty == <<>>

\* a line of text made of the given cells
Row(cells) == join_tab(cells) \o <<NL>>

\* all sequences over S of length 1..n
RECURSIVE SeqsUpTo(_, _)
SeqsUpTo(S, n) ==
    IF n = 0 THEN {}
    ELSE LET shorter == SeqsUpTo(S, n - 1)
         IN  {<<x>> : x \in S}
             \cup shorter
             \cup {Append(q, x) : q \in shorter, x \in S}

HeaderLines == <<<<35, 10>>, <<46, 46, 46, 10>>>>   \* "#", "..."

\* a file with and without the comment block that ends with '...'
WithHeaders(files) == files \cup {HeaderLines \o f : f \in files}

\* dropping the final line break of a file, as editors may leave it; a
\* file whose last line is only the line break is kept as it is (readlines
\* never yields an empty line)
NoFinalNL(f) ==
    IF rstrip_nl(f[Len(f)]) = <<>> THEN f
    ELSE [i \in 1..Len(f) |-> IF i = Len(f) THEN rstrip_nl(f[i]) ELSE f[i]]

MaxSyncRows == 2
MaxSessionBaseRows == 2
MaxSessionDragRows == 3

SyncRows ==
    {Row(<<S_ni, S_5>>), Row(<<S_5, S_ni>>), Row(<<S_hao, S_ab, S_9>>),
     Row(<<S_ni>>), Row(<<S_empty>>), Row(<<S_ab, S_ab>>),
     Row(<<S_ni, S_pad5>>), Row(<<S_zhong, S_5>>)}

SyncTargets ==
    LET plain == SeqsUpTo(SyncRows, MaxSyncRows)
    IN  WithHeaders(plain) \cup {NoFinalNL(f) : f \in plain}

SyncSources ==
    {<<Row(<<S_ni, S_5>>)>>,
     <<Row(<<S_ni, S_9>>), Row(<<S_hao, S_7>>)>>,
     HeaderLines \o <<Row(<<S_7, S_ab, S_zhong>>), Row(<<S_5, S_ab, S_ni>>)>>,
     <<Row(<<S_ni, S_9>>), Row(<<S_ni>>), Row(<<S_ni, S_7>>),
       Row(<<S_5, S_7>>)>>}

SessionBaseRows ==
    {Row(<<S_ni, S_5>>), Row(<<S_ni, S_5, S_7>>), Row(<<S_hao, S_5>>)}

SessionDragRows ==
    {Row(<<S_ni, S_9>>), Row(<<S_hao, S_5>>), Row(<<S_ni, S_ab>>)}

IdlePure == call = [op |-> "none"]

IdleSync ==
    /\ baseFile = <<>>
    /\ dragFile = <<>>
    /\ base_mapping = <<>>
    /\ backup = NoBackup
    /\ run = NoRun

IdleDict ==
    /\ outFile = <<>>
    /\ failFile = <<>>
    /\ existing_phrases = {}
    /\ session = [rule |-> 0]
    /\ add = [op |-> "none"]

\* main() up to its loop: the base file is loaded once
MainStart(bases, drags) ==
    /\ baseFile \in bases
    /\ dragFile \in drags
    /\ base_mapping = load_file_with_column_detection(baseFile).phrase_to_weight
    /\ backup = NoBackup
    /\ run = NoRun

InitSync ==
    /\ MainStart(SyncTargets, SyncSources)
    /\ IdlePure
    /\ IdleDict

InitSession ==
    /\ MainStart(SeqsUpTo(SessionBaseRows, MaxSessionBaseRows),
                 SeqsUpTo(SessionDragRows, MaxSessionDragRows))
    /\ IdlePure
    /\ IdleDict

\* runs in which every file-system call succeeds
SyncDirection1 == Direction1({"ok"}, {TRUE})
SyncDirection2 == Direction2({"ok"}, {TRUE})

NextSync == SyncDirection1 \/ SyncDirection2

SpecSync == InitSync /\ [][NextSync]_vars

\* runs in which the backup step or the write of the target may fail
SessionDirection1 == Direction1(BackupFates, BOOLEAN)
SessionDirection2 == Direction2(BackupFates, BOOLEAN)

NextSession == SessionDirection1 \/ SessionDirection2

SpecSession == InitSession /\ [][NextSession]_vars

---------------------------------------------------------------------------
(* Single calls of the column classifier and of the row resolver: the      *)
(* arguments are chosen when the call is made, the action runs the call.   *)

S_neg5 == <<45, 53>>       \* "-5"
S_a1 == <<97, 49>>         \* "a1"

LabelSet == {"phrase", "code", "weight", "unknown"}

MaxBatch == 3
MaxMapCols == 3

\* lines handed to the classifier
ClassifyLines ==
    {Row(<<S_ni, S_5>>), Row(<<S_5, S_ni>>), Row(<<S_ni, S_ab, S_5>>),
     Row(<<S_ab>>), Row(<<S_empty>>), Row(<<S_empty, S_5>>),
     Row(<<S_pad5, S_ni>>), Row(<<S_neg5, S_ab>>), Row(<<S_a1>>)}

ClassifyInputs == {<<>>} \cup SeqsUpTo(ClassifyLines, MaxBatch)

\* rows (already split into cells) handed to the resolver
ResolveRows ==
    {<<S_ni, S_5>>, <<S_5, S_ni>>, <<S_ni, S_ab, S_5>>, <<S_ab>>, <<S_ni>>,
     <<S_5>>, <<S_empty, S_5>>, <<S_ab, S_ab>>, <<S_pad5, S_hao, S_ni>>,
     <<S_neg5, S_7, S_a1>>, <<S_empty>>}

\* every ColumnTypeMap over the column indices 0..n-1, n <= MaxMapCols
ResolveMaps ==
    UNION {[0..(n - 1) -> LabelSet] : n \in 0..MaxMapCols}

PendingCalls ==
    {[op |-> "classify", done |-> FALSE, lines |-> b, parts |-> <<>>,
      column_types |-> <<>>, result |-> <<>>] : b \in ClassifyInputs}
    \cup
    {[op |-> "resolve", done |-> FALSE, lines |-> <<>>, parts |-> r,
      column_types |-> m, result |-> <<>>] :
         r \in ResolveRows, m \in ResolveMaps}

InitPure == call \in PendingCalls /\ IdleSync /\ IdleDict

\* column_types = detect_column_types(data_lines)
Classify ==
    /\ call.op = "classify"
    /\ ~call.done
    /\ call' = [call EXCEPT
                   !.done = TRUE,
                   !.result = detect_column_types(data_lines_of(call.lines))]
    /\ UNCHANGED syncVars
    /\ UNCHANGED dictVars

\* phrase_col, weight_col = find_columns_by_type_for_row(parts, column_types)
Resolve ==
    /\ call.op = "resolve"
    /\ ~call.done
    /\ call' = [call EXCEPT
                   !.done = TRUE,
                   !.result = find_columns_by_type_for_row(call.parts,
                                                           call.column_types)]
    /\ UNCHANGED syncVars
    /\ UNCHANGED dictVars

NextPure == Classify \/ Resolve

SpecPure == InitPure /\ [][NextPure]_vars

---------------------------------------------------------------------------
(* wubi.encoded.py: the encoding rules.  A phrase and a code are strings;  *)
(* char_codes maps one-character strings to codes.                         *)

X == 120    \* "x", the filler of an uncoded character

\* d.get(key, default)
dict_get(d, key, default) == IF key \in DOMAIN d THEN d[key] ELSE default

\* s[:n]
take(s, n) == SubSeq(s, 1, IF n < Len(s) THEN n ELSE Len(s))

\* phrase[i], i 0-based: a one-character string
char_at(phrase, i) == <<phrase[i + 1]>>

get_first_code(char, char_codes) ==
    LET code == dict_get(char_codes, char, <<>>)
    IN  IF code # <<>> THEN take(code, 1) ELSE <<X>>

get_first_two_codes_unpadded(char, char_codes) ==
    LET code == dict_get(char_codes, char, <<>>)
    IN  IF Len(code) >= 2 THEN take(code, 2)
        ELSE IF Len(code) = 1 THEN code
        ELSE <<X, X>>

get_first_two_codes(char, char_codes) ==
    LET code == dict_get(char_codes, char, <<>>)
    IN  IF Len(code) >= 2 THEN take(code, 2)
        ELSE IF Len(code) = 1 THEN code \o <<X>>
        ELSE <<X, X>>

\* "".join(get_first_code(char, char_codes) for char in phrase[k:])
RECURSIVE first_codes_from(_, _, _)
first_codes_from(phrase, k, char_codes) ==
    IF k >= Len(phrase) THEN <<>>
    ELSE get_first_code(char_at(phrase, k), char_codes)
         \o first_codes_from(phrase, k + 1, char_codes)

rule_standard_wubi_first_four(phrase, char_codes) ==
    LET length == Len(phrase)
    IN  IF length = 1 THEN dict_get(char_codes, phrase, <<X, X, X, X>>)
        ELSE IF length = 2
        THEN take(get_first_two_codes(char_at(phrase, 0), char_codes)
                  \o get_first_two_codes(char_at(phrase, 1), char_codes), 4)
        ELSE IF length = 3
        THEN take(get_first_code(char_at(phrase, 0), char_codes)
                  \o get_first_code(char_at(phrase, 1), char_codes)
                  \o get_first_two_codes(char_at(phrase, 2), char_codes), 4)
        ELSE take(first_codes_from(phrase, 0, char_codes), 4)

rule_standard_wubi(phrase, char_codes) ==
    LET length == Len(phrase)
    IN  IF length = 1 THEN dict_get(char_codes, phrase, <<X, X, X, X>>)
        ELSE IF length = 2
        THEN take(get_first_two_codes(char_at(phrase, 0), char_codes)
                  \o get_first_two_codes(char_at(phrase, 1), char_codes), 4)
        ELSE IF length = 3
        THEN take(get_first_code(char_at(phrase, 0), char_codes)
                  \o get_first_code(char_at(phrase, 1), char_codes)
                  \o get_first_two_codes(char_at(phrase, 2), char_codes), 4)
        ELSE IF length = 4
        THEN take(first_codes_from(phrase, 0, char_codes), 4)
        ELSE take(get_first_code(char_at(phrase, 0), char_codes)
                  \o get_first_code(char_at(phrase, 1), char_codes)
                  \o get_first_code(char_at(phrase, 2), char_codes)
                  \o get_first_code(char_at(phrase, length - 1), char_codes),
                  4)

rule_one_code_per_char_last(phrase, char_codes) ==
    LET length == Len(phrase)
    IN  IF length = 1 THEN dict_get(char_codes, phrase, <<X, X, X, X>>)
        ELSE IF length = 2
        THEN take(get_first_two_codes(char_at(phrase, 0), char_codes)
                  \o get_first_two_codes(char_at(phrase, 1), char_codes), 4)
        ELSE IF length = 3
        THEN take(get_first_code(char_at(phrase, 0), char_codes)
                  \o get_first_code(char_at(phrase, 1), char_codes)
                  \o get_first_two_codes(char_at(phrase, 2), char_codes), 4)
        ELSE take(get_first_code(char_at(phrase, 0), char_codes)
                  \o get_first_code(char_at(phrase, 1), char_codes)
                  \o get_first_code(char_at(phrase, 2), char_codes)
                  \o get_first_code(char_at(phrase, length - 1), char_codes),
                  4)

rule_one_code_per_char(phrase, char_codes) ==
    LET length == Len(phrase)
    IN  IF length = 1 THEN dict_get(char_codes, phrase, <<X, X, X, X>>)
        ELSE IF length = 2
        THEN take(get_first_two_codes(char_at(phrase, 0), char_codes)
                  \o get_first_two_codes(char_at(phrase, 1), char_codes), 4)
        ELSE IF length = 3
        THEN take(get_first_code(char_at(phrase, 0), char_codes)
                  \o get_first_code(char_at(phrase, 1), char_codes)
                  \o get_first_two_codes(char_at(phrase, 2), char_codes), 4)
        ELSE take(first_codes_from(phrase, 0, char_codes), 4)

rule_first_two_chars_one_code(phrase, char_codes) ==
    LET length == Len(phrase)
    IN  IF length = 1 THEN dict_get(char_codes, phrase, <<X, X, X, X>>)
        ELSE IF length = 2
        THEN take(get_first_two_codes(char_at(phrase, 0), char_codes)
                  \o get_first_two_codes(char_at(phrase, 1), char_codes), 4)
        ELSE take(get_first_code(char_at(phrase, 0), char_codes)
                  \o get_first_code(char_at(phrase, 1), char_codes)
                  \o get_first_two_codes(char_at(phrase, 2), char_codes), 4)

rule_first_two_chars_two_codes_rest_one(phrase, char_codes) ==
    LET length == Len(phrase)
    IN  IF length = 1 THEN dict_get(char_codes, phrase, <<X, X, X, X>>)
        ELSE IF length = 2
        THEN take(get_first_two_codes(char_at(phrase, 0), char_codes)
                  \o get_first_two_codes(char_at(phrase, 1), char_codes), 4)
        ELSE take((IF length >= 1
                   THEN get_first_two_codes(char_at(phrase, 0), char_codes)
                   ELSE <<>>)
                  \o (IF length >= 2
                      THEN get_first_two_codes(char_at(phrase, 1), char_codes)
                      ELSE <<>>)
                  \o first_codes_from(phrase, 2, char_codes), 4)

\* the "for char in phrase" loop of rule_all_two_codes; result is the
\* concatenation of codes so far, its length is total_length
RECURSIVE all_two_codes_loop_stop_early(_, _, _, _)
all_two_codes_loop_stop_early(phrase, k, char_codes, result) ==
    IF k >= Len(phrase) \/ Len(result) >= 2 THEN result
    ELSE LET two_codes == get_first_two_codes(char_at(phrase, k), char_codes)
             remaining == 4 - Len(result)
         IN  all_two_codes_loop_stop_early(phrase, k + 1, char_codes,
                 IF Len(two_codes) <= remaining
                 THEN result \o two_codes
                 ELSE result \o take(two_codes, remaining))

RECURSIVE all_two_codes_loop(_, _, _, _)
all_two_codes_loop(phrase, k, char_codes, result) ==
    IF k >= Len(phrase) \/ Len(result) >= 4 THEN result
    ELSE LET two_codes == get_first_two_codes(char_at(phrase, k), char_codes)
             remaining == 4 - Len(result)
         IN  all_two_codes_loop(phrase, k + 1, char_codes,
                 IF Len(two_codes) <= remaining
                 THEN result \o two_codes
                 ELSE result \o take(two_codes, remaining))

RECURSIVE pad_x(_)
pad_x(result) == IF Len(result) < 4 THEN pad_x(result \o <<X>>) ELSE result

rule_all_two_codes_unpadded(phrase, char_codes) ==
    take(all_two_codes_loop(phrase, 0, char_codes, <<>>), 4)

rule_all_two_codes(phrase, char_codes) ==
    take(pad_x(all_two_codes_loop(phrase, 0, char_codes, <<>>)), 4)

rule_free_coding(phrase, char_codes) == <<>>

generate_wubi_code(phrase, char_codes, rule) ==
    IF rule = 1 THEN rule_standard_wubi(phrase, char_codes)
    ELSE IF rule = 2 THEN rule_one_code_per_char(phrase, char_codes)
    ELSE IF rule = 3
    THEN rule_first_two_chars_two_codes_rest_one(phrase, char_codes)
    ELSE IF rule = 4 THEN rule_all_two_codes(phrase, char_codes)
    ELSE IF rule = 5 THEN rule_free_coding(phrase, char_codes)
    ELSE rule_standard_wubi(phrase, char_codes)

---------------------------------------------------------------------------
(* wubi.encoded.py: the output dictionary and the two ways of adding to   *)
(* it.  A file is the sequence of its lines, as "for line in f" reads it.  *)

\* f.write(text) on a file opened with mode 'a'; text ends with a line break
append_text(file, text) ==
    IF file # <<>> /\ file[Len(file)][Len(file[Len(file)])] # NL
    THEN [file EXCEPT ![Len(file)] = @ \o text]
    ELSE Append(file, text)

RECURSIVE read_existing_entries_from(_, _)
read_existing_entries_from(file, k) ==
    IF k > Len(file) THEN {}
    ELSE LET line == strip(file[k])
         IN  (IF line # <<>> THEN {split_tab(line)[1]} ELSE {})
             \cup read_existing_entries_from(file, k + 1)

read_existing_entries(file) == read_existing_entries_from(file, 1)

\* existing_fail_phrases of file_batch_mode
read_fail_phrases(file) ==
    {strip(file[k]) : k \in {i \in 1..Len(file) : strip(file[i]) # <<>>}}

RECURSIVE non_blank_lines(_, _)
non_blank_lines(file, k) ==
    IF k > Len(file) THEN <<>>
    ELSE (IF strip(file[k]) # <<>> THEN <<rstrip_nl(file[k])>> ELSE <<>>)
         \o non_blank_lines(file, k + 1)

clean_output_file(file) ==
    LET lines == non_blank_lines(file, 1)
    IN  [i \in 1..Len(lines) |-> lines[i] \o <<NL>>]

\* ''.join(re.findall(r'[\u4e00-\u9fff]', text))
extract_chinese_chars(text) == SelectSeq(text, IsCJK)

check_all_chars_exist_or_none(phrase, char_codes) ==
    LET chinese_chars == extract_chinese_chars(phrase)
    IN  \A i \in 1..Len(chinese_chars) :
            <<chinese_chars[i]>> \in DOMAIN char_codes

check_all_chars_exist(phrase, char_codes) ==
    LET chinese_chars == extract_chinese_chars(phrase)
    IN  IF chinese_chars = <<>> THEN FALSE
        ELSE \A i \in 1..Len(chinese_chars) :
                 <<chinese_chars[i]>> \in DOMAIN char_codes

\* re.match(r'^[a-zA-Z]+$', user_code) on a stripped string
match_letters(user_code) ==
    user_code # <<>>
    /\ \A i \in 1..Len(user_code) :
           IsLower(user_code[i]) \/ IsUpper(user_code[i])

\* user_code.lower()
lower(user_code) ==
    [i \in 1..Len(user_code) |->
        IF IsUpper(user_code[i]) THEN user_code[i] + 32 ELSE user_code[i]]

\* The "while True" loop that asks for the free code: attempts are the lines
\* the user types; an empty or non-letter answer is asked again, and the
\* user gives up with a keyboard interrupt once the attempts are used up.
RECURSIVE ask_user_code(_, _)
ask_user_code(attempts, k) ==
    IF k > Len(attempts) THEN [cancelled |-> TRUE, code |-> <<>>]
    ELSE LET user_code == strip(attempts[k])
         IN  IF user_code = <<>> \/ ~match_letters(user_code)
             THEN ask_user_code(attempts, k + 1)
             ELSE [cancelled |-> FALSE, code |-> lower(user_code)]

DefaultWeight == <<49, 48, 48>>    \* "100"

\* the line f"{phrase}\t{code}\t{weight}\n"
entry_line(phrase, code, weight) ==
    phrase \o <<TAB>> \o code \o <<TAB>> \o weight \o <<NL>>

\* interactive_single_input: out is the content of wubi.user.dict.yaml,
\* attempts the user's answers to the free-code prompt, wr whether the
\* append to the output file succeeds.  reason stands for the second
\* element of the returned pair: "exists", "uncoded", "cancelled",
\* "no_chinese", "error", and "added" when it is the code.
interactive_single_input(phrase, rule, char_codes, phrase_weights, existing, out, attempts, wr) ==
    LET reject(reason) ==
            [out |-> out, existing_phrases |-> existing, success |-> FALSE,
             reason |-> reason, code |-> <<>>]
        append(code) ==
            IF wr
            THEN [out |-> append_text(out,
                              entry_line(phrase, code,
                                  dict_get(phrase_weights, phrase,
                                           DefaultWeight))),
                  existing_phrases |-> existing \cup {phrase},
                  success |-> TRUE, reason |-> "added", code |-> code]
            ELSE reject("error")
    IN  IF phrase \in existing THEN reject("exists")
        ELSE IF rule # 5 /\ ~check_all_chars_exist(phrase, char_codes)
        THEN reject("uncoded")
        ELSE IF rule = 5
        THEN LET answer == ask_user_code(attempts, 1)
             IN  IF answer.cancelled THEN reject("cancelled")
                 ELSE append(answer.code)
        ELSE LET chinese_chars == extract_chinese_chars(phrase)
             IN  IF chinese_chars = <<>> THEN reject("no_chinese")
                 ELSE append(generate_wubi_code(chinese_chars, char_codes,
                                                rule))

\* one iteration of "for line_num, line in enumerate(lines, 1)" of
\* file_batch_mode; st holds the two files, the two sets and the counters
batch_line(raw, rule, char_codes, phrase_weights, wr, st) ==
    LET line == strip(raw)
        to_fail == [st EXCEPT !.fail = append_text(@, line \o <<NL>>),
                              !.fail_count = @ + 1,
                              !.existing_fail_phrases = @ \cup {line}]
    IN  IF line = <<>> THEN st
        ELSE IF line \in st.existing_phrases
        THEN [st EXCEPT !.skipped_count = @ + 1]
        ELSE IF line \in st.existing_fail_phrases
        THEN [st EXCEPT !.skipped_count = @ + 1]
        ELSE IF ~check_all_chars_exist(line, char_codes) THEN to_fail
        ELSE LET chinese_chars == extract_chinese_chars(line)
             IN  IF chinese_chars = <<>>
                 THEN [st EXCEPT !.fail_count = @ + 1]
                 ELSE IF wr
                 THEN [st EXCEPT
                          !.out = append_text(@,
                                      entry_line(line,
                                          generate_wubi_code(chinese_chars,
                                              char_codes, rule),
                                          dict_get(phrase_weights, line,
                                                   DefaultWeight))),
                          !.added_count = @ + 1,
                          !.existing_phrases = @ \cup {line}]
                 ELSE to_fail

RECURSIVE batch_lines(_, _, _, _, _, _, _)
batch_lines(lines, k, rule, char_codes, phrase_weights, wr, st) ==
    IF k > Len(lines) THEN st
    ELSE batch_lines(lines, k + 1, rule, char_codes, phrase_weights, wr,
             batch_line(lines[k], rule, char_codes, phrase_weights, wr, st))

\* file_batch_mode for the rules 1-4: lines is the content of input_file,
\* out and fail the contents of wubi.user.dict.yaml and fail.txt
file_batch_mode(rule, char_codes, phrase_weights, lines, out, fail, wr) ==
    LET st == batch_lines(lines, 1, rule, char_codes, phrase_weights, wr,
                  [out |-> out, fail |-> fail,
                   existing_phrases |-> read_existing_entries(out),
                   existing_fail_phrases |-> read_fail_phrases(fail),
                   added_count |-> 0, fail_count |-> 0, skipped_count |-> 0])
    IN  [out |-> IF st.added_count > 0 THEN clean_output_file(st.out)
                 ELSE st.out,
         fail |-> IF st.fail_count > 0 THEN clean_output_file(st.fail)
                  ELSE st.fail,
         added |-> st.added_count,
         failed |-> st.fail_count]

---------------------------------------------------------------------------
(* wubi.encoded.py: one session of main().  session holds the rule chosen  *)
(* and the two tables read at start, the number of inputs the input loop   *)
(* has handled (interactive_count + file_count of auto_mode) and the       *)
(* added_count of interactive_input_mode; existing_phrases is the set the  *)
(* input loop reads once at its start.                                     *)

S_ni_zhong == <<20320, 20013>>  \* U+4F60 U+4E2D, the second one uncoded
S_ni_a == <<20320, 97>>         \* U+4F60 "a"
S_wq == <<119, 113>>            \* "wq"
S_v == <<118>>                  \* "v"
S_Ab == <<65, 98>>              \* "Ab"
S_blank == <<32>>               \* " "

CharCodes == (S_ni :> S_wq) @@ (S_hao :> S_v)
PhraseWeights == (S_ni_a :> S_7)

MaxInputs == 2
MaxBatchLines == 2
MaxAttempts == 2

\* what the user types as a phrase (already stripped, not a file path)
DictPhrases == {S_hao, S_ni_a, S_ni_zhong, S_ab}

\* lines of a batch input file
BatchLines ==
    {S_blank \o Row(<<S_hao>>), Row(<<S_ni_zhong>>), Row(<<S_empty>>), S_ab}

BatchInputs == SeqsUpTo(BatchLines, MaxBatchLines)

\* answers to the free-code prompt
UserAttempts == {<<>>} \cup SeqsUpTo({S_blank, S_a1, S_Ab}, MaxAttempts)

\* the output dictionary found at start: no phrase twice
StartDictionaries ==
    {<<>>, <<entry_line(S_hao, S_v, S_9), <<NL>>>>}

NoAdd ==
    [op |-> "none", phrase |-> <<>>, attempts |-> <<>>, wr |-> FALSE,
     pre_out |-> <<>>, pre_existing |-> {}, success |-> FALSE,
     reason |-> "none", code |-> <<>>]

InitDict ==
    /\ outFile \in StartDictionaries
    /\ failFile = <<>>
    /\ existing_phrases = read_existing_entries(outFile)
    /\ session \in {[rule |-> r, char_codes |-> CharCodes,
                     phrase_weights |-> PhraseWeights, inputs |-> 0,
                     added_count |-> 0, finished |-> FALSE] : r \in 1..5}
    /\ add = NoAdd
    /\ IdlePure
    /\ IdleSync

\* the input loop receives a phrase: interactive_single_input
SingleInput ==
    /\ ~session.finished
    /\ session.inputs < MaxInputs
    /\ \E phrase \in DictPhrases, wr \in BOOLEAN :
       \E attempts \in IF session.rule = 5 THEN UserAttempts ELSE {<<>>} :
       \E r \in {interactive_single_input(phrase, session.rule,
                     session.char_codes, session.phrase_weights,
                     existing_phrases, outFile, attempts, wr)} :
          /\ outFile' = r.out
          /\ existing_phrases' = r.existing_phrases
          /\ add' = [op |-> "single", phrase |-> phrase,
                     attempts |-> attempts, wr |-> wr,
                     pre_out |-> outFile, pre_existing |-> existing_phrases,
                     success |-> r.success, reason |-> r.reason,
                     code |-> r.code]
          /\ session' = [session EXCEPT
                            !.inputs = @ + 1,
                            !.added_count = IF session.rule = 5 /\ r.success
                                            THEN @ + 1 ELSE @]
    /\ UNCHANGED failFile
    /\ UNCHANGED pureVars
    /\ UNCHANGED syncVars

\* the input loop of auto_mode receives a file path: file_batch_mode
BatchFile ==
    /\ ~session.finished
    /\ session.inputs < MaxInputs
    /\ session.rule # 5
    /\ \E lines \in BatchInputs, wr \in BOOLEAN :
       \E r \in {file_batch_mode(session.rule, session.char_codes,
                     session.phrase_weights, lines, outFile, failFile, wr)} :
          /\ outFile' = r.out
          /\ failFile' = r.fail
          /\ add' = [op |-> "batch", phrase |-> <<>>, attempts |-> <<>>,
                     wr |-> wr, pre_out |-> outFile,
                     pre_existing |-> existing_phrases,
                     success |-> r.added > 0, reason |-> "batch",
                     code |-> <<>>]
          /\ session' = [session EXCEPT !.inputs = @ + 1]
    /\ UNCHANGED existing_phrases
    /\ UNCHANGED pureVars
    /\ UNCHANGED syncVars

\* two empty lines end the input loop: the output file is cleaned
Finish ==
    /\ ~session.finished
    /\ outFile' = IF (session.rule = 5 /\ session.added_count > 0)
                     \/ (session.rule # 5 /\ session.inputs > 0)
                  THEN clean_output_file(outFile)
                  ELSE outFile
    /\ session' = [session EXCEPT !.finished = TRUE]
    /\ add' = [NoAdd EXCEPT !.op = "finish", !.pre_out = outFile,
                            !.pre_existing = existing_phrases]
    /\ UNCHANGED <<failFile, existing_phrases>>
    /\ UNCHANGED pureVars
    /\ UNCHANGED syncVars

NextDict == SingleInput \/ BatchFile \/ Finish

SpecDict == InitDict /\ [][NextDict]_vars

---------------------------------------------------------------------------
(* Vocabulary of the claims about one synchronisation run.  The last run   *)
(* is described by run (run.pre: the target before the run, run.mapping:  *)
(* the source PhraseWeightMap); the target after the run is LastTarget.    *)

LastTarget == IF run.dir = 1 THEN baseFile ELSE dragFile

PreHeaderLen == marker_index(run.pre)

\* One record per data row of the target before the run: how the row reads
\* (cells, resolved columns, phrase, weight cell) and the line found at its
\* place in the target after the run.
RunRows ==
    LET data == data_lines_of(run.pre)
        types == detect_column_types(data)
        m == marker_index(run.pre)
        post == LastTarget
    IN  [k \in 1..Len(data) |->
            LET parts == split_tab(data[k].content)
                cols == resolve_row(parts, types)
                resolved == cols[1] # None /\ cols[2] # None
                phrase == IF resolved THEN strip(parts[cols[1] + 1])
                          ELSE <<>>
                cell == IF resolved THEN parts[cols[2] + 1] ELSE <<>>
                matched == resolved /\ phrase \in DOMAIN run.mapping
            IN  [content |-> data[k].content,
                 orig |-> data[k].orig,
                 parts |-> parts,
                 phrase_col |-> cols[1],
                 weight_col |-> cols[2],
                 non_blank |-> strip(data[k].content) # <<>>,
                 has_tab |-> Len(parts) >= 2,
                 resolved |-> resolved,
                 phrase |-> phrase,
                 weight_cell |-> cell,
                 matched |-> matched,
                 same_weight |-> matched
                                 /\ strip(cell) = run.mapping[phrase],
                 post |-> IF m + k <= Len(post) THEN post[m + k]
                          ELSE <<>>]]

Occurs(x, q) == \E i \in 1..Len(q) : q[i] = x

\* (a) the row is rewritten with the source weight
CaseUpdated(r) ==
    r.non_blank /\ r.has_tab /\ r.matched /\ ~r.same_weight
\* (b) the phrase is not in the source map
CaseUnmatched(r) ==
    r.non_blank /\ r.has_tab /\ r.resolved /\ ~r.matched
\* (c) as the claim words it: a column cannot be resolved
CaseUnresolved(r) == r.non_blank /\ ~r.resolved
\* (c) as the code has it: no tab separator, or a column cannot be resolved
CaseError(r) == r.non_blank /\ (~r.has_tab \/ ~r.resolved)
\* (d) the weight cell already holds the source weight
CaseEqual(r) == r.non_blank /\ r.has_tab /\ r.same_weight

Count(P(_), rows) == Cardinality({k \in DOMAIN rows : P(rows[k])})

\* the contents of the rows that satisfy P, in file order
RECURSIVE ContentsWhere(_, _, _)
ContentsWhere(P(_), rows, k) ==
    IF k > Len(rows) THEN <<>>
    ELSE (IF P(rows[k]) THEN <<rows[k].content>> ELSE <<>>)
         \o ContentsWhere(P, rows, k + 1)

ExactlyOne(bs) == Cardinality({i \in 1..Len(bs) : bs[i]}) = 1

\* the effect of case (a) on a row
EffectUpdated(r) ==
    /\ r.post = join_tab(list_set(r.parts, r.weight_col,
                                  run.mapping[r.phrase])) \o <<NL>>
    /\ split_tab(rstrip_nl(r.post))[r.weight_col + 1] = run.mapping[r.phrase]
    /\ Occurs(r.content, run.modified_lines)

\* the effect of every other case on a row
EffectKept(r) == r.post = r.orig

---------------------------------------------------------------------------
(* C1: synchronize is idempotent: a run followed at once by a run in the  *)
(* same direction with the same source marks no row as changed and        *)
(* leaves the target as the first run wrote it.                            *)
C1_Idempotent ==
    [][(/\ run.ok
        /\ run'.ok
        /\ run'.dir = run.dir
        /\ run'.mapping = run.mapping)
       => (/\ run'.updated_count = 0
           /\ run'.modified_lines = <<>>
           /\ baseFile' = baseFile
           /\ dragFile' = dragFile)]_vars

(* C2: a target row whose resolved phrase is a key of the source map and  *)
(* whose trimmed weight cell equals the stored weight is written back     *)
(* byte for byte, is not in changedLines and is not counted as updated.   *)
C2_EqualWeightUntouched ==
    run.wrote =>
        LET rows == RunRows
            equal(r) == r.non_blank /\ r.same_weight
            other(r) == ~equal(r)
        IN  /\ \A k \in DOMAIN rows :
                  equal(rows[k]) =>
                      /\ rows[k].post = rows[k].orig
                      /\ ~Occurs(rows[k].content, run.modified_lines)
            /\ run.updated_count <= Count(other, rows)
            /\ run.updated_count = Len(run.modified_lines)

C2_Witness ==
    /\ run.wrote
    /\ run.updated_count > 0
    /\ \E k \in DOMAIN RunRows :
          /\ RunRows[k].non_blank /\ RunRows[k].same_weight
          /\ RunRows[k].weight_cell # strip(RunRows[k].weight_cell)

(* C3 as claimed: every non-blank target row is in exactly one of the     *)
(* cases (a) updated, (b) unmatched, (c) unresolved, with that case's     *)
(* effect and counter.                                                     *)
C3_Original ==
    run.wrote =>
        LET rows == RunRows
        IN  \A k \in DOMAIN rows :
                rows[k].non_blank =>
                    ExactlyOne(<<CaseUpdated(rows[k]), CaseUnmatched(rows[k]),
                                 CaseUnresolved(rows[k])>>)

(* C3 as amended: every non-blank target row is in exactly one of the     *)
(* cases (a) updated, (b) unmatched, (c) error (no tab separator or a     *)
(* column unresolved), (d) weight already equal; (a) rewrites the weight  *)
(* cell, records the original line and counts in updatedCount, (b) and    *)
(* (c) keep the row and count in unmatchedCount and errorCount, (d) keeps *)
(* the row and counts nowhere; every row of case (a) carries the source   *)
(* weight afterwards.                                                      *)
C3_RowCases ==
    run.wrote =>
        LET rows == RunRows
        IN  /\ \A k \in DOMAIN rows :
                  rows[k].non_blank =>
                      /\ ExactlyOne(<<CaseUpdated(rows[k]),
                                      CaseUnmatched(rows[k]),
                                      CaseError(rows[k]),
                                      CaseEqual(rows[k])>>)
                      /\ CaseUpdated(rows[k]) => EffectUpdated(rows[k])
                      /\ ~CaseUpdated(rows[k]) => EffectKept(rows[k])
            /\ run.updated_count = Count(CaseUpdated, rows)
            /\ run.not_found_count = Count(CaseUnmatched, rows)
            /\ run.error_count = Count(CaseError, rows)
            /\ run.modified_lines = ContentsWhere(CaseUpdated, rows, 1)

C3_Witness ==
    /\ run.wrote
    /\ \E k \in DOMAIN RunRows :
          CaseUpdated(RunRows[k]) /\ RunRows[k].weight_col = 0
    /\ \E k \in DOMAIN RunRows : CaseEqual(RunRows[k])

(* C4: the rewritten target is the header block verbatim followed by one  *)
(* line per original data line in the original order; the number of lines *)
(* is preserved and every row not marked changed is byte-identical.       *)
C4_RewriteFrame ==
    run.wrote =>
        LET rows == RunRows
            m == PreHeaderLen
            post == LastTarget
        IN  /\ Len(post) = Len(run.pre)
            /\ Len(rows) = Len(run.pre) - m
            /\ \A i \in 1..m : post[i] = run.pre[i]
            /\ m = 0 => \A i \in 1..Len(run.pre) :
                            strip(rstrip_nl(run.pre[i])) # Marker
            /\ m > 0 => /\ strip(rstrip_nl(run.pre[m])) = Marker
                        /\ \A i \in 1..(m - 1) :
                               strip(rstrip_nl(run.pre[i])) # Marker
            /\ \A k \in DOMAIN rows :
                  /\ ~CaseUpdated(rows[k]) => rows[k].post = run.pre[m + k]
                  \* one output line per data line: no line break inside it
                  /\ \A j \in 1..(Len(rows[k].post) - 1) :
                         rows[k].post[j] # NL
                  /\ k < Len(rows) => rows[k].post[Len(rows[k].post)] = NL

C4_Witness ==
    /\ run.wrote
    /\ PreHeaderLen > 0
    /\ \E k \in DOMAIN RunRows : CaseUpdated(RunRows[k])
    /\ \E k \in DOMAIN RunRows : ~CaseUpdated(RunRows[k])

(* C5: the target is overwritten only after its content was written to   *)
(* the backup file: when the backup step fails the target is left         *)
(* untouched and the run reports failure.                                  *)
C5_BackupBeforeOverwrite ==
    (run.dir # 0 /\ ~run.backup_ok) =>
        /\ ~run.wrote
        /\ ~run.ok
        /\ LastTarget = run.pre

(* C6: a direction-2 run substitutes the weights the base file holds when *)
(* the run starts, never weights cached from an earlier load.              *)
C6_FreshMapping ==
    run.dir = 2 =>
        run.mapping = load_file_with_column_detection(baseFile).phrase_to_weight

(* C7: no phrase is the first cell of more than one line of the output   *)
(* dictionary, after any sequence of single additions and batch runs of   *)
(* one session that started from a dictionary without duplicates.          *)
FirstCell(line) == split_tab(strip(line))[1]

C7_UniquePhrases ==
    \A i, j \in 1..Len(outFile) :
        (i < j /\ strip(outFile[i]) # <<>> /\ strip(outFile[j]) # <<>>)
            => FirstCell(outFile[i]) # FirstCell(outFile[j])

(* C8 as claimed, for the rules 1-4 and a writable output file: a phrase  *)
(* in existingPhrases is rejected as duplicate; otherwise a phrase with a  *)
(* CJK character absent from charCodeMap is rejected as uncoded; otherwise *)
(* exactly one line phrase, code, weight is appended and the phrase is     *)
(* added to existingPhrases.                                               *)
Unchanged == outFile = add.pre_out /\ existing_phrases = add.pre_existing

Appended(code) ==
    /\ add.success
    /\ add.code = code
    /\ outFile = add.pre_out
                     \o <<entry_line(add.phrase, code,
                              IF add.phrase \in DOMAIN session.phrase_weights
                              THEN session.phrase_weights[add.phrase]
                              ELSE DefaultWeight)>>
    /\ existing_phrases = add.pre_existing \cup {add.phrase}

HasUncodedChar(phrase) ==
    \E i \in 1..Len(phrase) :
        IsCJK(phrase[i]) /\ <<phrase[i]>> \notin DOMAIN session.char_codes

HasChineseChar(phrase) == \E i \in 1..Len(phrase) : IsCJK(phrase[i])

C8_Original ==
    (add.op = "single" /\ session.rule # 5 /\ add.wr) =>
        IF add.phrase \in add.pre_existing
        THEN ~add.success /\ add.reason = "exists" /\ Unchanged
        ELSE IF HasUncodedChar(add.phrase)
        THEN ~add.success /\ add.reason = "uncoded" /\ Unchanged
        ELSE Appended(generate_wubi_code(extract_chinese_chars(add.phrase),
                                         session.char_codes, session.rule))

(* C8 as amended: a phrase in existingPhrases is rejected as duplicate;   *)
(* otherwise, for the rules 1-4, a phrase that has no CJK character or has *)
(* a CJK character absent from charCodeMap is rejected as uncoded; for     *)
(* rule 5 the code is the first answer of the user that consists of        *)
(* letters only, lower-cased, and the addition is cancelled when the user  *)
(* gives none; when the append to the output file fails nothing is added;  *)
(* otherwise exactly one line phrase, code, weight is appended, with the   *)
(* code generated from the CJK characters of the phrase (rules 1-4) and    *)
(* the weight looked up by the full phrase or "100", and the phrase is     *)
(* added to existingPhrases.  A rejection appends nothing.                 *)
C8_TryAdd ==
    add.op = "single" =>
        LET answer == ask_user_code(add.attempts, 1)
        IN  IF add.phrase \in add.pre_existing
            THEN ~add.success /\ add.reason = "exists" /\ Unchanged
            ELSE IF session.rule # 5
                    /\ (~HasChineseChar(add.phrase)
                        \/ HasUncodedChar(add.phrase))
            THEN ~add.success /\ add.reason = "uncoded" /\ Unchanged
            ELSE IF session.rule = 5 /\ answer.cancelled
            THEN ~add.success /\ add.reason = "cancelled" /\ Unchanged
            ELSE IF ~add.wr
            THEN ~add.success /\ add.reason = "error" /\ Unchanged
            ELSE Appended(IF session.rule = 5 THEN answer.code
                          ELSE generate_wubi_code(
                                   extract_chinese_chars(add.phrase),
                                   session.char_codes, session.rule))

C8_Witness ==
    /\ add.op = "single"
    /\ session.rule # 5
    /\ add.phrase = S_ab
    /\ add.phrase \notin add.pre_existing
    /\ add.wr
    /\ add.reason = "uncoded"
    /\ add.pre_out # <<>>

(* C9 as claimed: resolve takes as phrase (weight) column the first index *)
(* the map labels phrase (weight), and where the map has no such index    *)
(* the first cell of the row the per-cell classifier labels that way.     *)
FirstIn(S) == IF S = {} THEN None ELSE CHOOSE c \in S : \A d \in S : c <= d

Labelled(types, label) == {c \in DOMAIN types : types[c] = label}

RowLabelled(parts, label) ==
    {c \in 0..(Len(parts) - 1) : detect_cell_type(parts[c + 1]) = label}

C9_Original ==
    (call.op = "resolve" /\ call.done) =>
        \A role \in {"phrase", "weight"} :
            LET got == IF role = "phrase" THEN call.result[1]
                       ELSE call.result[2]
                in_map == Labelled(call.column_types, role)
            IN  got = IF in_map # {} THEN FirstIn(in_map)
                      ELSE FirstIn(RowLabelled(call.parts, role))

(* C9 as amended: resolve takes as phrase (weight) column the first index *)
(* labelled phrase (weight) in the map among the indices the row has      *)
(* (index < number of cells), and where there is none the first cell of   *)
(* the row the per-cell classifier labels that way; a returned index is   *)
(* always a cell of the row; a row with a cell classified phrase and a    *)
(* cell classified weight gets both indices whatever the map holds.       *)
C9_Resolve ==
    (call.op = "resolve" /\ call.done) =>
        /\ \A role \in {"phrase", "weight"} :
              LET got == IF role = "phrase" THEN call.result[1]
                         ELSE call.result[2]
                  in_map == {c \in Labelled(call.column_types, role) :
                                c < Len(call.parts)}
                  in_row == RowLabelled(call.parts, role)
              IN  /\ got = IF in_map # {} THEN FirstIn(in_map)
                           ELSE FirstIn(in_row)
                  /\ got = None \/ got \in 0..(Len(call.parts) - 1)
                  /\ in_row # {} => got # None
        /\ DOMAIN call.result = 1..2

C9_Witness ==
    /\ call.op = "resolve" /\ call.done
    /\ Labelled(call.column_types, "phrase") # {}
    /\ \A c \in Labelled(call.column_types, "phrase") : c >= Len(call.parts)
    /\ Labelled(call.column_types, "weight") = {}
    /\ call.result[1] # None
    /\ call.result[2] # None
    /\ call.result[2] < call.result[1]

(* C10: classify gives each column the label with the highest count among *)
(* phrase, code, weight (ties to the earlier label) when that count is at  *)
(* least half of the column's occurrences over the non-blank rows, and     *)
(* unknown otherwise; a column that holds a pure integer in more than half *)
(* of its rows is labelled weight.                                          *)
C10_Classify ==
    (call.op = "classify" /\ call.done) =>
        LET data == data_lines_of(call.lines)
            rows == {k \in 1..Len(data) : strip(data[k].content) # <<>>}
            cells(k) == split_tab(data[k].content)
            occ(c) == {k \in rows : c < Len(cells(k))}
            n(c, label) ==
                Cardinality({k \in occ(c) :
                                detect_cell_type(cells(k)[c + 1]) = label})
            best(c) ==
                IF n(c, "phrase") >= n(c, "code")
                   /\ n(c, "phrase") >= n(c, "weight") THEN "phrase"
                ELSE IF n(c, "code") >= n(c, "weight") THEN "code"
                ELSE "weight"
        IN  /\ DOMAIN call.result =
                   UNION {0..(Len(cells(k)) - 1) : k \in rows}
            /\ \A c \in DOMAIN call.result :
                  /\ call.result[c] =
                         IF 2 * n(c, best(c)) >= Cardinality(occ(c))
                         THEN best(c) ELSE "unknown"
                  /\ 2 * n(c, "weight") > Cardinality(occ(c))
                         => call.result[c] = "weight"

C10_Witness ==
    /\ call.op = "classify" /\ call.done
    /\ Len(call.lines) = 3
    /\ \E c \in DOMAIN call.result : call.result[c] = "unknown"
    /\ \E c \in DOMAIN call.result : call.result[c] = "weight"
    /\ \E k \in 1..Len(call.lines) :
          detect_cell_type(split_tab(rstrip_nl(call.lines[k]))[1]) = "phrase"

---------------------------------------------------------------------------
(* wubi.encoded.py: the phrase weight table                                *)

\* the digits of an int() literal, single underscores between digits skipped
RECURSIVE digits_value(_, _)
digits_value(body, acc) ==
    IF body = <<>> THEN acc
    ELSE IF body[1] = 95 THEN digits_value(Tail(body), acc)
    ELSE digits_value(Tail(body), 10 * acc + (body[1] - 48))

\* int(weight_str): ok is FALSE where Python raises ValueError
py_int(weight_str) ==
    LET t == strip(weight_str)
        signed == t # <<>> /\ t[1] \in {43, 45}
        body == IF signed THEN Tail(t) ELSE t
        valid == /\ body # <<>>
                 /\ IsDigit(body[1])
                 /\ IsDigit(body[Len(body)])
                 /\ \A i \in 1..Len(body) :
                       \/ IsDigit(body[i])
                       \/ body[i] = 95 /\ i > 1 /\ IsDigit(body[i - 1])
    IN  [ok |-> valid,
         value |-> IF ~valid THEN 0
                   ELSE IF t[1] = 45 THEN 0 - digits_value(body, 0)
                   ELSE digits_value(body, 0)]

incoming_weight_int_lowest(weight_str) ==
    LET v == py_int(weight_str)
    IN  IF v.ok THEN v.value ELSE -1000000

\* try: weight_int = int(weight_str) / except ValueError: weight_int = 0
incoming_weight_int(weight_str) ==
    LET v == py_int(weight_str)
    IN  IF v.ok THEN v.value ELSE 0

weight_update_last_tie(phrase_weights, phrase, weight_str) ==
    IF phrase \in DOMAIN phrase_weights
    THEN LET existing_weight == py_int(phrase_weights[phrase])
         IN  IF existing_weight.ok
             THEN IF incoming_weight_int(weight_str) >= existing_weight.value
                  THEN dict_set(phrase_weights, phrase, weight_str)
                  ELSE phrase_weights
             ELSE dict_set(phrase_weights, phrase, weight_str)
    ELSE dict_set(phrase_weights, phrase, weight_str)

\* "if phrase in phrase_weights: ... else: phrase_weights[phrase] = weight_str"
weight_update(phrase_weights, phrase, weight_str) ==
    IF phrase \in DOMAIN phrase_weights
    THEN LET existing_weight == py_int(phrase_weights[phrase])
         IN  IF existing_weight.ok
             THEN IF incoming_weight_int(weight_str) > existing_weight.value
                  THEN dict_set(phrase_weights, phrase, weight_str)
                  ELSE phrase_weights
             ELSE dict_set(phrase_weights, phrase, weight_str)
    ELSE dict_set(phrase_weights, phrase, weight_str)

\* the body of "for line in f" in read_phrase_weights
read_weight_line(raw, phrase_weights) ==
    Bind(strip(raw), LAMBDA line :
        IF line = <<>> THEN phrase_weights
        ELSE Bind(split_tab(line), LAMBDA parts :
                 IF Len(parts) >= 2
                 THEN weight_update(phrase_weights, parts[1], parts[2])
                 ELSE phrase_weights))

RECURSIVE read_phrase_weights_from(_, _, _)
read_phrase_weights_from(file, k, phrase_weights) ==
    IF k > Len(file) THEN phrase_weights
    ELSE Bind(read_weight_line(file[k], phrase_weights), LAMBDA next :
             read_phrase_weights_from(file, k + 1, next))

\* read_phrase_weights(filename) on an existing, readable file
read_phrase_weights(file) == read_phrase_weights_from(file, 1, <<>>)

---------------------------------------------------------------------------
(* Single calls of the code generator and of the weight-table loader: the  *)
(* arguments are chosen when the call is made, the action runs the call.   *)

S_a == <<97>>                  \* "a"
S_wb == <<119, 98>>            \* "wb"
S_k == <<107>>                 \* "k"
S_vbcd == <<118, 98, 99, 100>> \* "vbcd"
S_12 == <<49, 50>>             \* "12"
S_05 == <<48, 53>>             \* "05"
S_neg3 == <<45, 51>>           \* "-3"
S_0 == <<48>>                  \* "0"
S_abc == <<97, 98, 99>>        \* "abc"
S_xyz == <<120, 121, 122>>     \* "xyz"

MaxPhraseLen == 5
MaxTableLines == 3

\* phrases handed to generate_wubi_code: 1..MaxPhraseLen characters
GeneratePhrases == SeqsUpTo({S_ni[1], S_hao[1], S_zhong[1]}, MaxPhraseLen)

\* single-character code tables: a character is uncoded, or has a code of
\* length 1, 2 or 4; two of the codes share their first letter
GenerateCodes ==
    {ni @@ hao @@ zhong :
        ni \in {<<>>, S_ni :> S_a, S_ni :> S_wq},
        hao \in {S_hao :> S_wb},
        zhong \in {S_zhong :> S_k, S_zhong :> S_vbcd}}

\* lines of a weight table
TableLines ==
    {Row(<<S_ni, w>>) : w \in {S_5, S_12, S_05, S_neg3, S_0, S_abc, S_xyz}}
    \cup {Row(<<S_hao, S_5>>), Row(<<S_hao, S_abc>>), Row(<<S_ni>>),
          Row(<<S_blank>>)}

WeightTables == {<<>>} \cup SeqsUpTo(TableLines, MaxTableLines)

CodeCalls ==
    {[op |-> "generate", done |-> FALSE, phrase |-> p, char_codes |-> m,
      rule |-> r, file |-> <<>>, result |-> <<>>] :
         p \in GeneratePhrases, m \in GenerateCodes, r \in 1..5}
    \cup
    {[op |-> "read_phrase_weights", done |-> FALSE, phrase |-> <<>>,
      char_codes |-> <<>>, rule |-> 0, file |-> f, result |-> <<>>] :
         f \in WeightTables}

InitCode == call \in CodeCalls /\ IdleSync /\ IdleDict

\* code = generate_wubi_code(phrase, char_codes, rule)
Generate ==
    /\ call.op = "generate"
    /\ ~call.done
    /\ call' = [call EXCEPT
                   !.done = TRUE,
                   !.result = generate_wubi_code(call.phrase, call.char_codes,
                                                 call.rule)]
    /\ UNCHANGED syncVars
    /\ UNCHANGED dictVars

\* phrase_weights = read_phrase_weights(weight_file)
ReadPhraseWeights ==
    /\ call.op = "read_phrase_weights"
    /\ ~call.done
    /\ call' = [call EXCEPT !.done = TRUE,
                            !.result = read_phrase_weights(call.file)]
    /\ UNCHANGED syncVars
    /\ UNCHANGED dictVars

NextCode == Generate \/ ReadPhraseWeights

SpecCode == InitCode /\ [][NextCode]_vars

---------------------------------------------------------------------------
(* Vocabulary of the classifier claims                                     *)

\* the non-blank data rows of a classify call, as lists of cells
ClassifiedRows ==
    LET data == data_lines_of(call.lines)
    IN  {split_tab(data[k].content) :
            k \in {j \in 1..Len(data) : strip(data[j].content) # <<>>}}

\* the label the per-cell rule gives: unknown for an empty trimmed cell, then
\* weight for -?digits, then code for lowercase letters, then phrase
CellLabel(cell) ==
    LET t == strip(cell)
        signless == IF t # <<>> /\ t[1] = 45 THEN SubSeq(t, 2, Len(t)) ELSE t
    IN  CASE t = <<>> -> "unknown"
          [] t # <<>> /\ signless # <<>>
                /\ (\A i \in 1..Len(signless) : signless[i] \in 48..57)
               -> "weight"
          [] t # <<>> /\ (\A i \in 1..Len(t) : t[i] \in 97..122)
                /\ ~(signless # <<>>
                     /\ \A i \in 1..Len(signless) : signless[i] \in 48..57)
               -> "code"
          [] OTHER -> "phrase"

(* C11: every cell gets the label of the per-cell rule (weight for an     *)
(* optional '-' and digits, else code for lowercase letters, else phrase, *)
(* unknown for an empty trimmed cell), and the file-level classifier and  *)
(* the per-row reclassification label every cell by that same rule.       *)
C11_CellRule ==
    /\ (call.op = "resolve" /\ call.done) =>
           /\ \A i \in 1..Len(call.parts) :
                 /\ analyze_row_pattern(call.parts)[i - 1]
                        = CellLabel(call.parts[i])
                 /\ detect_cell_types(call.parts)[i]
                        = CellLabel(call.parts[i])
           /\ call.column_types = <<>> =>
                 \A role \in {"phrase", "weight"} :
                     (IF role = "phrase" THEN call.result[1]
                      ELSE call.result[2])
                        = FirstIn({c \in 0..(Len(call.parts) - 1) :
                                      CellLabel(call.parts[c + 1]) = role})
    /\ (call.op = "classify" /\ call.done) =>
           \A row \in ClassifiedRows :
               ClassifiedRows = {row} =>
                   /\ DOMAIN call.result = 0..(Len(row) - 1)
                   /\ \A c \in DOMAIN call.result :
                         call.result[c] = CellLabel(row[c + 1])

C11_Witness ==
    /\ call.op = "classify" /\ call.done
    /\ ClassifiedRows = {<<S_pad5, S_ni>>}
    /\ call.result[0] = "weight"
    /\ call.result[1] = "phrase"

(* C12 as claimed: every index present in the map returned by classify    *)
(* had at least one non-empty cell at that index among the rows.          *)
C12_Original ==
    (call.op = "classify" /\ call.done) =>
        \A c \in DOMAIN call.result :
            \E row \in ClassifiedRows :
                c < Len(row) /\ strip(row[c + 1]) # <<>>

(* C12 as amended: the indices present in the map returned by classify    *)
(* are exactly the cell positions of the non-blank rows, empty cells      *)
(* included; a column whose cells are all empty or whitespace-only is     *)
(* present with the label unknown, and a column labelled phrase, code or  *)
(* weight has at least one non-empty cell.                                *)
C12_Presence ==
    (call.op = "classify" /\ call.done) =>
        /\ DOMAIN call.result =
               UNION {0..(Len(row) - 1) : row \in ClassifiedRows}
        /\ \A c \in DOMAIN call.result :
              LET filled == \E row \in ClassifiedRows :
                                c < Len(row) /\ strip(row[c + 1]) # <<>>
              IN  /\ ~filled => call.result[c] = "unknown"
                  /\ call.result[c] # "unknown" => filled

C12_Witness ==
    /\ call.op = "classify" /\ call.done
    /\ \E c \in DOMAIN call.result :
          /\ call.result[c] = "unknown"
          /\ \A row \in ClassifiedRows :
                c < Len(row) => strip(row[c + 1]) = <<>>
    /\ \E c \in DOMAIN call.result : call.result[c] = "weight"

---------------------------------------------------------------------------
(* Vocabulary of the code-generation claims                                *)

GenDone(rules) == call.op = "generate" /\ call.done /\ call.rule \in rules

L == Len(call.phrase)

\* the stored code of character i (0-based) of the phrase, "" when uncoded
StoredCode(i) ==
    IF <<call.phrase[i + 1]>> \in DOMAIN call.char_codes
    THEN call.char_codes[<<call.phrase[i + 1]>>] ELSE <<>>

\* firstCode: the first letter of the stored code, "x" when uncoded
FirstCode(i) == IF StoredCode(i) = <<>> THEN <<X>> ELSE <<StoredCode(i)[1]>>

\* firstTwoCodes: the first two letters, a one-letter code followed by "x",
\* "xx" when uncoded
FirstTwoCodes(i) ==
    CASE Len(StoredCode(i)) = 0 -> <<X, X>>
      [] Len(StoredCode(i)) = 1 -> <<StoredCode(i)[1], X>>
      [] OTHER -> <<StoredCode(i)[1], StoredCode(i)[2]>>

\* firstCode(c_i) + ... + firstCode(c_(L-1))
RECURSIVE FirstCodesFrom(_)
FirstCodesFrom(i) == IF i >= L THEN <<>> ELSE FirstCode(i) \o FirstCodesFrom(i + 1)

\* firstTwoCodes(c_i) + ... + firstTwoCodes(c_(L-1))
RECURSIVE FirstTwoCodesFrom(_)
FirstTwoCodesFrom(i) ==
    IF i >= L THEN <<>> ELSE FirstTwoCodes(i) \o FirstTwoCodesFrom(i + 1)

Prefix(s, n) == [i \in 1..(IF Len(s) < n THEN Len(s) ELSE n) |-> s[i]]

\* the single-character result of rule 1: the stored code, "xxxx" when the
\* character is not a key of the table
SingleCharCode ==
    IF call.phrase \in DOMAIN call.char_codes
    THEN call.char_codes[call.phrase] ELSE <<X, X, X, X>>

\* what rule 1 returns for the phrase of the call
Rule1Code == generate_wubi_code(call.phrase, call.char_codes, 1)

(* C13: under rules 1, 2 and 3 a phrase of two or more characters always  *)
(* gets a code of exactly 4 characters, whatever the table holds; an      *)
(* uncoded character contributes "x" as a first code and "xx" as a        *)
(* two-code fragment, a one-letter code is followed by "x".               *)
C13_FourChars ==
    (GenDone(1..3) /\ L >= 2) =>
        /\ Len(call.result) = 4
        /\ StoredCode(0) = <<>> => call.result[1] = X
        /\ (\A i \in 0..(L - 1) : StoredCode(i) = <<>>)
               => call.result = <<X, X, X, X>>
        /\ (L = 2 \/ call.rule = 3) =>
               /\ Len(StoredCode(0)) <= 1 => call.result[2] = X
               /\ Len(StoredCode(1)) = 0 => call.result[3] = X
               /\ Len(StoredCode(1)) <= 1 => call.result[4] = X

C13_Witness ==
    /\ GenDone({3}) /\ L = 3
    /\ StoredCode(0) = <<>>
    /\ Len(StoredCode(1)) = 1
    /\ call.result = <<X, X, StoredCode(1)[1], X>>

(* C14: rule 1 follows its table: one character gives the stored code     *)
(* unpadded ("xxxx" when uncoded), two give firstTwoCodes of each, three  *)
(* give firstCode, firstCode, firstTwoCodes, four give firstCode of each, *)
(* five or more give firstCode of the first three and of the last one.    *)
C14_Rule1Table ==
    GenDone({1}) =>
        call.result =
            CASE L = 1 -> SingleCharCode
              [] L = 2 -> FirstTwoCodes(0) \o FirstTwoCodes(1)
              [] L = 3 -> FirstCode(0) \o FirstCode(1) \o FirstTwoCodes(2)
              [] L = 4 -> FirstCode(0) \o FirstCode(1) \o FirstCode(2)
                          \o FirstCode(3)
              [] OTHER -> FirstCode(0) \o FirstCode(1) \o FirstCode(2)
                          \o FirstCode(L - 1)

C14_Witness ==
    /\ GenDone({1}) /\ L >= 5
    /\ FirstCode(3) # FirstCode(L - 1)
    /\ FirstCode(3) # FirstCode(2)
    /\ call.result[4] = FirstCode(L - 1)[1]

(* C15: rule 2 returns rule 1's code for a phrase of at most four         *)
(* characters; for five or more it returns firstCode of the first four    *)
(* characters, which differs from rule 1's code exactly when firstCode of *)
(* the fourth character differs from firstCode of the last one.           *)
C15_Rule2 ==
    GenDone({2}) =>
        /\ L <= 4 => call.result = Rule1Code
        /\ L >= 5 =>
              /\ call.result = Prefix(FirstCodesFrom(0), 4)
              /\ call.result = FirstCode(0) \o FirstCode(1) \o FirstCode(2)
                               \o FirstCode(3)
              /\ (call.result # Rule1Code)
                    <=> (FirstCode(3) # FirstCode(L - 1))

C15_Witness ==
    /\ GenDone({2}) /\ L >= 5
    /\ call.result # Rule1Code
    /\ call.result[4] = FirstCode(3)[1]

(* C16: rule 3 returns rule 1's code for one and two characters; for      *)
(* three or more it returns the first 4 characters of firstTwoCodes of    *)
(* the first two characters followed by firstCode of every later one.     *)
C16_Rule3 ==
    GenDone({3}) =>
        /\ L <= 2 => call.result = Rule1Code
        /\ L >= 3 =>
              call.result = Prefix(FirstTwoCodes(0) \o FirstTwoCodes(1)
                                   \o FirstCodesFrom(2), 4)

C16_Witness ==
    /\ GenDone({3}) /\ L >= 3
    /\ call.result # Rule1Code
    /\ call.result = FirstTwoCodes(0) \o FirstTwoCodes(1)

(* C17: rule 4 appends firstTwoCodes of the characters from left to right *)
(* until 4 letters are collected, a one-letter code counting as the       *)
(* letter and "x", and pads with "x" when the phrase runs out: the code   *)
(* always has exactly 4 characters.                                       *)
C17_Rule4 ==
    GenDone({4}) =>
        /\ Len(call.result) = 4
        /\ call.result = Prefix(FirstTwoCodesFrom(0) \o <<X, X, X, X>>, 4)
        /\ Len(StoredCode(0)) = 1 =>
              /\ call.result[1] = StoredCode(0)[1]
              /\ call.result[2] = X
        /\ L = 1 => call.result[3] = X /\ call.result[4] = X

C17_Witness ==
    /\ GenDone({4}) /\ L = 1
    /\ Len(StoredCode(0)) = 1
    /\ call.result = <<StoredCode(0)[1], X, X, X>>

(* C18: for a phrase of one character rule 4 returns what rule 1 returns: *)
(* the character's full stored code, or "xxxx" when it is uncoded.        *)
C18_Rule4SingleChar ==
    (GenDone({4}) /\ L = 1) =>
        /\ call.result = SingleCharCode
        /\ call.result = Rule1Code

---------------------------------------------------------------------------
(* Vocabulary of the weight-table claims                                   *)

ReadDone == call.op = "read_phrase_weights" /\ call.done

\* the <<phrase, weight string>> of line k of the table, <<>> for a line
\* that is blank or has fewer than two cells
WeightEntry(k) ==
    LET line == strip(call.file[k])
        parts == IF line = <<>> THEN <<>> ELSE split_tab(line)
    IN  IF Len(parts) >= 2 THEN <<parts[1], parts[2]>> ELSE <<>>

TablePhrases ==
    {WeightEntry(k)[1] : k \in {j \in 1..Len(call.file) : WeightEntry(j) # <<>>}}

\* the lines on which the phrase occurs
Occurrences(phrase) ==
    {k \in 1..Len(call.file) :
        WeightEntry(k) # <<>> /\ WeightEntry(k)[1] = phrase}

WeightAt(k) == WeightEntry(k)[2]

IsInteger(weight_str) == py_int(weight_str).ok

\* the number a weight string stands for, a malformed one standing for 0
NumberOf(weight_str) ==
    IF IsInteger(weight_str) THEN py_int(weight_str).value ELSE 0

\* the stored string <<w>> (<<>> before the first occurrence) after lines
\* k.. when a malformed string counts as 0 on both sides of every
\* comparison and only a strictly larger incoming weight replaces
RECURSIVE KeptByValue(_, _, _)
KeptByValue(phrase, k, stored) ==
    IF k > Len(call.file) THEN stored
    ELSE IF k \notin Occurrences(phrase)
    THEN KeptByValue(phrase, k + 1, stored)
    ELSE IF stored = <<>> \/ NumberOf(WeightAt(k)) > NumberOf(stored[1])
    THEN KeptByValue(phrase, k + 1, <<WeightAt(k)>>)
    ELSE KeptByValue(phrase, k + 1, stored)

\* the same, except that a stored malformed string is not compared: the
\* next weight of the phrase replaces it whatever it is
RECURSIVE KeptUnlessMalformed(_, _, _)
KeptUnlessMalformed(phrase, k, stored) ==
    IF k > Len(call.file) THEN stored
    ELSE IF k \notin Occurrences(phrase)
    THEN KeptUnlessMalformed(phrase, k + 1, stored)
    ELSE IF \/ stored = <<>>
            \/ ~IsInteger(stored[1])
            \/ NumberOf(WeightAt(k)) > NumberOf(stored[1])
    THEN KeptUnlessMalformed(phrase, k + 1, <<WeightAt(k)>>)
    ELSE KeptUnlessMalformed(phrase, k + 1, stored)

(* C19: for a phrase whose lines all carry valid integer weights the      *)
(* loaded table holds the weight string of the numerically largest        *)
(* weight, whatever the order of the lines, and the first-seen string     *)
(* when the largest value occurs more than once.                          *)
C19_LargestWins ==
    ReadDone =>
        /\ DOMAIN call.result = TablePhrases
        /\ \A phrase \in TablePhrases :
              (\A k \in Occurrences(phrase) : IsInteger(WeightAt(k))) =>
                  \E k \in Occurrences(phrase) :
                      /\ call.result[phrase] = WeightAt(k)
                      /\ \A j \in Occurrences(phrase) :
                            \/ NumberOf(WeightAt(j)) < NumberOf(WeightAt(k))
                            \/ /\ NumberOf(WeightAt(j)) = NumberOf(WeightAt(k))
                               /\ k <= j

C19_Witness ==
    /\ ReadDone
    /\ call.file = <<Row(<<S_ni, S_05>>), Row(<<S_ni, S_12>>),
                     Row(<<S_ni, S_5>>)>>
    /\ call.result[S_ni] = S_12

---------------------------------------------------------------------------
(* Vocabulary of the claims about the source of a direction-1 run: the     *)
(* source is dragFile, which the run leaves as it read it.                 *)

\* One record per data row of the source: whether the loader takes an entry
\* from the row, and the phrase and weight it takes.
SourceRows ==
    LET data == data_lines_of(dragFile)
        types == detect_column_types(data)
    IN  [k \in 1..Len(data) |->
            LET parts == split_tab(data[k].content)
                cols == resolve_row(parts, types)
                resolved == Len(parts) >= 2
                            /\ cols[1] # None /\ cols[2] # None
                phrase == IF resolved THEN strip(parts[cols[1] + 1])
                          ELSE <<>>
                weight == IF resolved /\ cols[2] < Len(parts)
                          THEN strip(parts[cols[2] + 1]) ELSE <<>>
            IN  [non_blank |-> strip(data[k].content) # <<>>,
                 loaded |-> resolved /\ phrase # <<>> /\ weight # <<>>,
                 phrase |-> phrase,
                 weight |-> weight]]

(* C21: when the source of a run holds a phrase on several rows with      *)
(* integer weights, the map used for the substitution holds the           *)
(* numerically largest of them for that phrase.                           *)
C21_LargestSourceWeight ==
    (run.dir = 1 /\ run.ok) =>
        LET rows == SourceRows
        IN  \A k \in DOMAIN rows :
                (/\ rows[k].loaded
                 /\ \A j \in DOMAIN rows :
                       (rows[j].loaded /\ rows[j].phrase = rows[k].phrase)
                           => IsInteger(rows[j].weight))
                => /\ rows[k].phrase \in DOMAIN run.mapping
                   /\ NumberOf(run.mapping[rows[k].phrase])
                         >= NumberOf(rows[k].weight)

SourceSkipped(r) == r.non_blank /\ ~r.loaded

C23_PhraseKept ==
    run.wrote =>
        LET rows == RunRows
        IN  \A k \in DOMAIN rows :
                (rows[k].non_blank /\ rows[k].has_tab /\ rows[k].resolved) =>
                    LET after == split_tab(rstrip_nl(rows[k].post))
                    IN  /\ Len(after) = Len(rows[k].parts)
                        /\ after[rows[k].phrase_col + 1]
                              = rows[k].parts[rows[k].phrase_col + 1]

(* C24: when row resolution returns both a phrase column and a weight     *)
(* column the two indices are different.                                  *)
C24_DistinctColumns ==
    (call.op = "resolve" /\ call.done
     /\ call.result[1] # None /\ call.result[2] # None)
        => call.result[1] # call.result[2]

(* C25: on phrases of two or more characters rules 3 and 4 return the     *)
(* same code, firstTwoCodes of the first character followed by            *)
(* firstTwoCodes of the second; rule 4 then never appends a part of a     *)
(* fragment and never pads.                                               *)
C25_Rules3And4 ==
    (GenDone({3, 4}) /\ L >= 2) =>
        /\ call.result = FirstTwoCodes(0) \o FirstTwoCodes(1)
        /\ call.result
              = generate_wubi_code(call.phrase, call.char_codes, 7 - call.rule)
        \* the loop of rule 4 collects 4 letters by itself: nothing to pad
        /\ Len(all_two_codes_loop(call.phrase, 0, call.char_codes, <<>>)) = 4
        \* each fragment the loop appends fits in what remains of the 4
        /\ \A k \in 0..1 :
              Len(get_first_two_codes(char_at(call.phrase, k),
                                      call.char_codes))
                 <= 4 - Len(all_two_codes_loop(SubSeq(call.phrase, 1, k), 0,
                                               call.char_codes, <<>>))

C25_Witness ==
    /\ GenDone({4}) /\ L >= 3
    /\ Len(StoredCode(0)) = 1
    /\ StoredCode(1) = <<>>
    /\ StoredCode(2) # <<>>
    /\ call.result = <<StoredCode(0)[1], X, X, X>>

(* C26: the last-resort content heuristics never change a resolution:     *)
(* when the map lookup and the per-row reclassification leave the phrase  *)
(* column unresolved no cell of the row holds a CJK ideograph, when they  *)
(* leave the weight column unresolved no cell is a pure integer, and the  *)
(* resolution with the heuristics equals the one without them.            *)
C26_HeuristicsIdle ==
    (call.op = "resolve" /\ call.done) =>
        /\ call.result[1] = None =>
              \A i \in 1..Len(call.parts) : ~search_cjk(strip(call.parts[i]))
        /\ call.result[2] = None =>
              \A i \in 1..Len(call.parts) :
                  ~fullmatch_int(strip(call.parts[i]))
        /\ resolve_row(call.parts, call.column_types) = call.result

C26_Witness ==
    /\ call.op = "resolve" /\ call.done
    /\ call.result[1] = None
    /\ call.result[2] = None
    /\ Len(call.parts) = 2
    /\ \E c \in DOMAIN call.column_types :
          call.column_types[c] \in {"phrase", "weight"}

(* C27: at the end of a run the counters agree with the rows: updatedCount *)
(* is the number of entries of changedLines, every non-blank target row   *)
(* is counted in at most one of updatedCount, unmatchedCount, errorCount, *)
(* the rows counted in none are exactly the resolved rows whose weight    *)
(* already equals the source's, and the three counters together never     *)
(* exceed the number of non-blank target rows.                            *)
C27_CountersConsistent ==
    run.wrote =>
        LET rows == RunRows
            non_blank(r) == r.non_blank
            counted(r) == CaseUpdated(r) \/ CaseUnmatched(r) \/ CaseError(r)
        IN  /\ run.updated_count = Len(run.modified_lines)
            /\ run.updated_count = Count(CaseUpdated, rows)
            /\ run.not_found_count = Count(CaseUnmatched, rows)
            /\ run.error_count = Count(CaseError, rows)
            /\ \A k \in DOMAIN rows :
                  /\ ~(CaseUpdated(rows[k]) /\ CaseUnmatched(rows[k]))
                  /\ ~(CaseUpdated(rows[k]) /\ CaseError(rows[k]))
                  /\ ~(CaseUnmatched(rows[k]) /\ CaseError(rows[k]))
                  /\ rows[k].non_blank =>
                        (~counted(rows[k]) <=> CaseEqual(rows[k]))
            /\ run.updated_count + run.not_found_count + run.error_count
                  = Count(non_blank, rows) - Count(CaseEqual, rows)
            /\ run.updated_count + run.not_found_count + run.error_count
                  <= Count(non_blank, rows)

C27_Witness ==
    /\ run.wrote
    /\ Count(CaseEqual, RunRows) = 1
    /\ run.not_found_count = 1
    /\ run.updated_count + run.not_found_count + run.error_count = 1
    /\ Len(data_lines_of(run.pre)) = 2

=============================================================================
